---- MODULE Spec2Model ----
(***************************************************************************)
(* Model of client.py: the request pipeline of ClientBase / Client.        *)
(* One logical call at a time (the library is synchronous); a call is a    *)
(* chain of _request frames, one per hop, linked by _redirect.             *)
(***************************************************************************)
EXTENDS Integers, Sequences, FiniteSets, TLC

VARIABLES
    default_headers,      \* ClientBase.default_headers (class attribute, a dict)
    cls_allow_redirects,  \* ClientBase.allow_redirects (class attribute)
    last_init,            \* the last ClientBase.init call since the last request call
    pc,                   \* "idle" | "request" | "response" | "done"
    call,                 \* the arguments of the call the caller made
    frame,                \* parameters/locals of the current _request frame
    connection,           \* the current frame's connection:
                          \* "none" | "created" | "open" | "closed"
    opened,               \* number of connections this call has connected
    closed,               \* number of connection.close() calls of this call
    caller_headers,       \* the content of the dict the caller passed as headers
    headers_obj,          \* the dict object the frame's `headers` refers to:
                          \* "none" | "caller" | "hop" | "fresh" | "default"
    first_sent,           \* what the first connection.request(...) of this call was given
    sent,                 \* what the last connection.request(...) was given
    response,             \* what the last connection.getresponse() returned
    exchanges,            \* number of connection.request(...) calls of this call
    followed,             \* number of _redirect recursions of this call
    decision,             \* the status of the last response and what it led to
    result,               \* the Response returned to the caller
    error                 \* the exception raised to the caller

vars == <<default_headers, cls_allow_redirects, last_init, pc, call, frame,
          connection, opened, closed, caller_headers, headers_obj, first_sent,
          sent, response, exchanges, followed, decision, result, error>>

----------------------------------------------------------------------------
(* Python values: [t |-> type name, v |-> content].                        *)

PyNone == [t |-> "NoneType", v |-> "None"]
PyStr(s) == [t |-> "str", v |-> s]
PyBytes(s) == [t |-> "bytes", v |-> s]
PyDict(s) == [t |-> "dict", v |-> s]

\* tri-state flags: None / True / False
Tri == {"None", "True", "False"}

\* dicts of headers are functions from header name to value
EmptyDict == [k \in {} |-> ""]
NoHeaders == [t |-> "NoneType", v |-> EmptyDict]
HeaderDict(d) == [t |-> "dict", v |-> d]

----------------------------------------------------------------------------
(* Bounds of the model.                                                    *)

\* largest max_redirects a direct _request call is started with
MaxBudget == 3

----------------------------------------------------------------------------
(* Class attributes of ClientBase.                                         *)

redirect_status_codes == {301, 302, 307, 308}

InitialDefaultHeaders ==
    [k \in {"User-Agent", "Accept-Encoding", "Accept", "Connection"} |->
        CASE k = "User-Agent" -> "python-custom-client/1.0"
          [] k = "Accept-Encoding" -> "gzip, deflate"
          [] k = "Accept" -> "*/*"
          [] k = "Connection" -> "keep-alive"]

\* default of the max_redirects parameter of _request
DefaultMaxRedirects == 5

----------------------------------------------------------------------------
(* Inputs the caller and the server are drawn from.                        *)

\* raw URLs (the caller's, and those of Location headers)
UrlPlain == "http://a.test"
UrlQuery == "https://b.test/p?q=1"
UrlNoScheme == "//c.test/x"
UrlFtp == "ftp://d.test/f"

CallUrls == {UrlPlain, UrlFtp}
LocationUrls == {UrlQuery, UrlNoScheme, UrlFtp}

\* the custom_headers arguments of init
CustomHeaderArgs ==
    { NoHeaders,
      HeaderDict([k \in {"X"} |-> "1"]),
      HeaderDict([k \in {"Accept", "Content-Type"} |->
                    IF k = "Accept" THEN "text/html" ELSE "text/plain"]) }

\* the headers arguments of the request calls
CallHeaderArgs ==
    { NoHeaders,
      HeaderDict([k \in {"X", "Y"} |-> IF k = "X" THEN "2" ELSE "3"]) }

\* the json_data and data arguments of the request calls
JsonArgs == {PyNone, PyDict("a=1")}
DataArgs == {PyNone, PyBytes("abc"), PyStr("abc")}

\* the max_redirects arguments of a direct _request call
Budgets == (-1)..MaxBudget

\* response bodies: the framing the bytes are in, and the text they carry
BodyGzip == [fmt |-> "gzip", text |-> "hello"]
BodyZlib == [fmt |-> "zlib", text |-> "bye"]
BodyPlain == [fmt |-> "plain", text |-> "plain text"]

\* response headers: an optional Location and an optional Content-Encoding
LocationHeaders ==
    {EmptyDict} \cup {[k \in {"Location"} |-> u] : u \in LocationUrls}

ContentEncoding(e) == [k \in {"Content-Encoding"} |-> e]

\* the Content-Encoding header and the body it comes with
Contents ==
    { [headers |-> EmptyDict, body |-> BodyPlain],
      [headers |-> ContentEncoding("gzip"), body |-> BodyGzip],
      [headers |-> ContentEncoding("deflate"), body |-> BodyZlib],
      [headers |-> ContentEncoding("gzip"), body |-> BodyPlain],
      [headers |-> ContentEncoding("br"), body |-> BodyPlain] }

RedirectContents ==
    { [headers |-> EmptyDict, body |-> BodyPlain],
      [headers |-> ContentEncoding("gzip"), body |-> BodyGzip],
      [headers |-> ContentEncoding("deflate"), body |-> BodyZlib] }

\* the responses connection.getresponse() can return
Responses ==
    { [status |-> 200, headers |-> c.headers, body |-> c.body] : c \in Contents }
    \cup
    { [status |-> s, headers |-> l @@ c.headers, body |-> c.body] :
        s \in redirect_status_codes, l \in LocationHeaders, c \in RedirectContents }

----------------------------------------------------------------------------
(* Library functions the pipeline calls.                                   *)

\* urllib.parse.urlparse on the URLs of the model
urlparse(raw_url) ==
    CASE raw_url = UrlPlain ->
           [scheme |-> "http", netloc |-> "a.test", path |-> "", query |-> ""]
      [] raw_url = UrlQuery ->
           [scheme |-> "https", netloc |-> "b.test", path |-> "/p", query |-> "q=1"]
      [] raw_url = UrlNoScheme ->
           [scheme |-> "", netloc |-> "c.test", path |-> "/x", query |-> ""]
      [] raw_url = UrlFtp ->
           [scheme |-> "ftp", netloc |-> "d.test", path |-> "/f", query |-> ""]

\* str.upper on the method names of the model
upper(method) ==
    CASE method = "post" -> "POST"
      [] OTHER -> method

\* json.dumps: text of a JSON-serializable value; bytes are not serializable
JsonSerializable(value) == value.t \in {"dict", "str"}
dumps(value) ==
    CASE value.t = "dict" /\ value.v = "a=1" -> PyStr("{\"a\": 1}")
      [] value.t = "str" -> PyStr("\"" \o value.v \o "\"")

\* str.encode
encode(value) == PyBytes(value.v)

\* http.client.HTTPResponse.getheader
getheader(resp, name) ==
    IF name \in DOMAIN resp.headers THEN PyStr(resp.headers[name]) ELSE PyNone

\* gzip.decompress / zlib.decompress: succeed on their own framing only
Decompresses(codec, body) ==
    \/ codec = "gzip" /\ body.fmt = "gzip"
    \/ codec = "deflate" /\ body.fmt = "zlib"

\* connection.request accepts a body that is None or bytes; it raises
\* TypeError while sending a (non-empty) dict
TransportAccepts(body) == body.t \in {"NoneType", "bytes"}

----------------------------------------------------------------------------
(* Pure parts of ClientBase.                                               *)

\* `headers or {}`
HeadersOrEmpty(headers) == IF headers.t = "NoneType" THEN EmptyDict ELSE headers.v

\* the merge with the defaults winning the conflicts
MergeHeadersDefaultsWin(defaults, headers) ==
    [k \in DOMAIN defaults \cup DOMAIN HeadersOrEmpty(headers) |->
        IF k \in DOMAIN defaults
        THEN defaults[k]
        ELSE HeadersOrEmpty(headers)[k]]

\* {**cls.default_headers, **(headers or {})}
MergeHeaders(defaults, headers) ==
    [k \in DOMAIN defaults \cup DOMAIN HeadersOrEmpty(headers) |->
        IF k \in DOMAIN HeadersOrEmpty(headers)
        THEN HeadersOrEmpty(headers)[k]
        ELSE defaults[k]]

\* headers["Content-Type"] = "application/json"
ForceJsonContentType(headers) ==
    [k \in DOMAIN headers \cup {"Content-Type"} |->
        IF k = "Content-Type" THEN "application/json" ELSE headers[k]]

\* `if max_redirects < 0`
BudgetExhausted(max_redirects) == max_redirects < 0

\* the budget handed on without the decrement
NextBudgetKept(max_redirects) == max_redirects

\* the budget _redirect hands to the next frame
NextBudget(max_redirects) == max_redirects - 1

\* the allow_redirects the next frame runs with: _redirect does not pass
\* it, so the parameter takes its default, None
NextAllowRedirects(allow_redirects) == "None"

\* the decision with an unset per-call flag read as true
ShouldRedirectUnsetFollows(status_code, allow_redirects, cls_allow) ==
    /\ status_code \in redirect_status_codes
    /\ allow_redirects \in {"True", "None"}

\* the redirect decision of _request
ShouldRedirect(status_code, allow_redirects, cls_allow) ==
    /\ status_code \in redirect_status_codes
    /\ \/ allow_redirects = "True"
       \/ allow_redirects = "None" /\ cls_allow = "True"

\* _connect: the scheme-appropriate connection and the request path
ConnectScheme(raw_url) ==
    IF urlparse(raw_url).scheme = "" THEN "http" ELSE urlparse(raw_url).scheme

\* _connect taking any scheme
ConnectSupportedAnyScheme(raw_url) == TRUE

ConnectSupported(raw_url) == ConnectScheme(raw_url) \in {"http", "https"}

ConnectPath(raw_url) ==
    LET parsed_url == urlparse(raw_url)
        path == IF parsed_url.path = "" THEN "/" ELSE parsed_url.path
    IN  IF parsed_url.query # "" THEN path \o "?" \o parsed_url.query ELSE path

\* the decoder passing an unencoded body through as text
DecodePayloadPassThrough(resp) ==
    LET encoding == getheader(resp, "Content-Encoding")
    IN  IF encoding = PyStr("gzip") \/ encoding = PyStr("deflate")
        THEN IF Decompresses(encoding.v, resp.body)
             THEN [ok |-> TRUE, value |-> resp.body.text]
             ELSE [ok |-> FALSE, value |-> "DecompressError"]
        ELSE [ok |-> TRUE, value |-> resp.body.text]

\* _decode_payload: [ok, text] or [ok, error]
DecodePayload(resp) ==
    LET encoding == getheader(resp, "Content-Encoding")
    IN  IF encoding = PyStr("gzip") \/ encoding = PyStr("deflate")
        THEN IF Decompresses(encoding.v, resp.body)
             THEN [ok |-> TRUE, value |-> resp.body.text]
             ELSE [ok |-> FALSE, value |-> "DecompressError"]
        ELSE [ok |-> FALSE, value |-> "UnsupportedEncoding"]

\* the body _request hands to connection.request, and whether Content-Type
\* is forced: json_data, when given, replaces data
PreparedData(json_data, data) ==
    LET d == IF json_data # PyNone THEN dumps(json_data) ELSE data
    IN  IF d.t = "str" THEN encode(d) ELSE d

PreparedHeaders(defaults, headers, json_data) ==
    IF json_data # PyNone
    THEN ForceJsonContentType(MergeHeaders(defaults, headers))
    ELSE MergeHeaders(defaults, headers)

----------------------------------------------------------------------------
(* State.                                                                  *)

NoCall ==
    [via |-> "none", method |-> "", url |-> "", headers |-> NoHeaders,
     json_data |-> PyNone, data |-> PyNone, max_redirects |-> 0,
     allow_redirects |-> "None"]

NoFrame ==
    [method |-> "", url |-> "", headers |-> NoHeaders, json_data |-> PyNone,
     data |-> PyNone, max_redirects |-> 0, allow_redirects |-> "None"]

NoSent == [method |-> "", path |-> "", body |-> PyNone, headers |-> EmptyDict]

NoResponse == [status |-> 0, headers |-> EmptyDict, body |-> [fmt |-> "", text |-> ""]]

NoResult == [status_code |-> 0, headers |-> EmptyDict, payload |-> ""]

NoDecision == [status |-> 0, followed |-> FALSE]

NoInit == [called |-> FALSE, allow_redirects |-> "None", before |-> "None"]

Init ==
    /\ default_headers = InitialDefaultHeaders
    /\ cls_allow_redirects = "None"
    /\ last_init = NoInit
    /\ pc = "idle"
    /\ call = NoCall
    /\ frame = NoFrame
    /\ connection = "none"
    /\ opened = 0
    /\ closed = 0
    /\ caller_headers = NoHeaders
    /\ headers_obj = "none"
    /\ first_sent = NoSent
    /\ sent = NoSent
    /\ response = NoResponse
    /\ exchanges = 0
    /\ followed = 0
    /\ decision = NoDecision
    /\ result = NoResult
    /\ error = "None"

----------------------------------------------------------------------------
(* ClientBase.init: the configuration call.                                *)

InitHeaders(defaults, custom_headers) ==
    IF custom_headers.t = "NoneType" \/ DOMAIN custom_headers.v = {}
    THEN defaults
    ELSE [k \in DOMAIN defaults \cup DOMAIN custom_headers.v |->
            IF k \in DOMAIN custom_headers.v THEN custom_headers.v[k] ELSE defaults[k]]

InitAllowRedirects(current, allow_redirects) ==
    IF allow_redirects = "True" THEN "True" ELSE current

init(custom_headers, allow_redirects) ==
    /\ pc = "idle"
    /\ default_headers' = InitHeaders(default_headers, custom_headers)
    /\ cls_allow_redirects' = InitAllowRedirects(cls_allow_redirects, allow_redirects)
    /\ last_init' = [called |-> TRUE, allow_redirects |-> allow_redirects,
                     before |-> cls_allow_redirects]
    /\ UNCHANGED <<pc, call, frame, connection, opened, closed, caller_headers,
                   headers_obj, first_sent, sent, response, exchanges,
                   followed, decision, result, error>>

Configure ==
    \E custom_headers \in CustomHeaderArgs, allow_redirects \in Tri :
        init(custom_headers, allow_redirects)

----------------------------------------------------------------------------
(* The entry points: a direct ClientBase._request call and the seven verb  *)
(* methods of Client.                                                      *)

CallOf(via, args) ==
    [via |-> via, method |-> args.method, url |-> args.url, headers |-> args.headers,
     json_data |-> args.json_data, data |-> args.data,
     max_redirects |-> args.max_redirects, allow_redirects |-> args.allow_redirects]

\* a _request frame is entered with these parameters
Enter(via, args, f) ==
    /\ pc = "idle"
    /\ pc' = "request"
    /\ call' = CallOf(via, args)
    /\ frame' = [method |-> f.method, url |-> f.url, headers |-> f.headers,
                 json_data |-> f.json_data, data |-> f.data,
                 max_redirects |-> f.max_redirects,
                 allow_redirects |-> f.allow_redirects]
    /\ caller_headers' = args.headers
    /\ headers_obj' = IF f.headers.t = "NoneType" THEN "none" ELSE "caller"
    /\ last_init' = NoInit
    /\ UNCHANGED <<default_headers, cls_allow_redirects, connection, opened, closed,
                   first_sent, sent, response, exchanges, followed, decision,
                   result, error>>

\* the call itself raises TypeError: the method has no such parameter
\* (got an unexpected keyword argument 'allow_redirects')
Reject(via, args) ==
    /\ pc = "idle"
    /\ pc' = "done"
    /\ call' = CallOf(via, args)
    /\ error' = "TypeError: unexpected keyword argument"
    /\ caller_headers' = args.headers
    /\ last_init' = NoInit
    /\ UNCHANGED <<default_headers, cls_allow_redirects, frame, connection, opened,
                   closed, headers_obj, first_sent, sent, response, exchanges,
                   followed, decision, result>>

\* cls._request(method, url, headers, json_data, data, max_redirects, allow_redirects)
request ==
    \E url \in CallUrls, headers \in CallHeaderArgs, json_data \in JsonArgs,
       data \in DataArgs, max_redirects \in Budgets, allow_redirects \in Tri :
        LET args == [method |-> "post", url |-> url, headers |-> headers,
                     json_data |-> json_data, data |-> data,
                     max_redirects |-> max_redirects,
                     allow_redirects |-> allow_redirects]
        IN  Enter("_request", args, args)

\* get / delete / head / options: cls._request(METHOD, url, headers)
VerbWithoutBody(name, method) ==
    \E url \in CallUrls, headers \in CallHeaderArgs, allow_redirects \in Tri :
        LET args == [method |-> method, url |-> url, headers |-> headers,
                     json_data |-> PyNone, data |-> PyNone,
                     max_redirects |-> DefaultMaxRedirects,
                     allow_redirects |-> allow_redirects]
        IN  IF allow_redirects # "None"
            THEN Reject(name, args)
            ELSE Enter(name, args,
                       [method |-> method, url |-> url, headers |-> headers,
                        json_data |-> PyNone, data |-> PyNone,
                        max_redirects |-> DefaultMaxRedirects,
                        allow_redirects |-> "None"])

\* the positions of _request's parameters that post / put / patch pass
\* their data and json_data in: cls._request(METHOD, url, headers, data, json_data)
VerbJsonData(data, json_data) == data
VerbData(data, json_data) == json_data

\* post / put / patch
VerbWithBody(name, method) ==
    \E url \in CallUrls, headers \in CallHeaderArgs, data \in DataArgs,
       json_data \in JsonArgs, allow_redirects \in Tri :
        LET args == [method |-> method, url |-> url, headers |-> headers,
                     json_data |-> json_data, data |-> data,
                     max_redirects |-> DefaultMaxRedirects,
                     allow_redirects |-> allow_redirects]
        IN  IF allow_redirects # "None"
            THEN Reject(name, args)
            ELSE Enter(name, args,
                       [method |-> method, url |-> url, headers |-> headers,
                        json_data |-> VerbJsonData(data, json_data),
                        data |-> VerbData(data, json_data),
                        max_redirects |-> DefaultMaxRedirects,
                        allow_redirects |-> "None"])

get == VerbWithoutBody("get", "GET")
post == VerbWithBody("post", "POST")
put == VerbWithBody("put", "PUT")
patch == VerbWithBody("patch", "PATCH")
delete == VerbWithoutBody("delete", "DELETE")
head == VerbWithoutBody("head", "HEAD")
options == VerbWithoutBody("options", "OPTIONS")

BodyVerbs == {"post", "put", "patch"}
Verbs == BodyVerbs \cup {"get", "delete", "head", "options"}

----------------------------------------------------------------------------
(* ClientBase._request, first half: from the budget check to               *)
(* connection.request(...).                                                *)

Raise(kind) ==
    /\ pc' = "done"
    /\ error' = kind

\* the merge done in place in the class's default dict
MergeObjectDefaults(param_obj) == "default"

\* the merge done in place in the dict passed as headers
MergeObjectInPlace(param_obj) == IF param_obj = "none" THEN "fresh" ELSE param_obj

\* the dict object the merge of line 134 leaves `headers` bound to:
\* {**a, **b} builds a new dict, whatever the parameter referred to
MergeObject(param_obj) == "fresh"

\* the effects of writing `content` into the dict object `obj`
WriteDefaults(obj, content) ==
    IF obj = "default" THEN content ELSE default_headers
WriteCaller(obj, content) ==
    IF obj = "caller" THEN HeaderDict(content) ELSE caller_headers

Dispatch ==
    /\ pc = "request"
    /\ IF BudgetExhausted(frame.max_redirects)
       THEN /\ Raise("TooManyRedirects")
            /\ UNCHANGED <<default_headers, frame, connection, opened, caller_headers,
                           headers_obj, first_sent, sent, exchanges>>
       ELSE IF ~ConnectSupported(frame.url)
       THEN /\ Raise("UnsupportedScheme")
            /\ UNCHANGED <<default_headers, frame, connection, opened, caller_headers,
                           headers_obj, first_sent, sent, exchanges>>
       ELSE IF frame.json_data # PyNone /\ ~JsonSerializable(frame.json_data)
       THEN \* json.dumps raises; the connection object exists, not yet connected
            LET headers == MergeHeaders(default_headers, frame.headers)
                obj == MergeObject(headers_obj)
            IN  /\ Raise("TypeError: not JSON serializable")
                /\ connection' = "created"
                /\ frame' = [frame EXCEPT !.headers = HeaderDict(headers)]
                /\ headers_obj' = obj
                /\ default_headers' = WriteDefaults(obj, headers)
                /\ caller_headers' = WriteCaller(obj, headers)
                /\ UNCHANGED <<opened, first_sent, sent, exchanges>>
       ELSE LET headers == PreparedHeaders(default_headers, frame.headers, frame.json_data)
                data == PreparedData(frame.json_data, frame.data)
                obj == MergeObject(headers_obj)
            IN  /\ connection' = "open"
                /\ opened' = opened + 1
                /\ frame' = [frame EXCEPT !.headers = HeaderDict(headers), !.data = data]
                /\ headers_obj' = obj
                /\ default_headers' = WriteDefaults(obj, headers)
                /\ caller_headers' = WriteCaller(obj, headers)
                /\ sent' = [method |-> upper(frame.method), path |-> ConnectPath(frame.url),
                            body |-> data, headers |-> headers]
                /\ first_sent' =
                     IF exchanges = 0
                     THEN [method |-> upper(frame.method), path |-> ConnectPath(frame.url),
                           body |-> data, headers |-> headers]
                     ELSE first_sent
                /\ exchanges' = exchanges + 1
                /\ IF TransportAccepts(data)
                   THEN pc' = "response" /\ UNCHANGED error
                   ELSE Raise("TypeError: body")
    /\ UNCHANGED <<cls_allow_redirects, last_init, call, closed,
                   response, followed, decision, result>>

----------------------------------------------------------------------------
(* ClientBase._request, second half: from connection.getresponse() to the  *)
(* return, with _redirect and _decode_payload.                             *)

\* `if not new_url`
LocationMissing(new_url) == new_url = PyNone \/ new_url.v = ""

\* the redirect re-issued without the body
RedirectFrameWithoutBody(f, new_url) ==
    [method |-> f.method, url |-> new_url, headers |-> f.headers,
     json_data |-> PyNone, data |-> PyNone,
     max_redirects |-> NextBudget(f.max_redirects),
     allow_redirects |-> NextAllowRedirects(f.allow_redirects)]

\* the parameters _redirect enters _request with: method, headers, json_data
\* and data as they are, the Location, the budget less one, and no
\* allow_redirects
RedirectFrame(f, new_url) ==
    [method |-> f.method, url |-> new_url, headers |-> f.headers,
     json_data |-> f.json_data, data |-> f.data,
     max_redirects |-> NextBudget(f.max_redirects),
     allow_redirects |-> NextAllowRedirects(f.allow_redirects)]

\* the recursion entered without closing
ClosedAfterRedirectSkipped(n) == n

\* connection.close() of _redirect, before the recursion
ClosedAfterRedirect(n) == n + 1

\* the budget decremented before the Location is looked at
MissingTargetFrameDecremented(f) == [f EXCEPT !.max_redirects = @ - 1]

\* what _redirect leaves behind when the Location is missing: nothing is
\* closed and the frame is as it was
MissingTargetFrame(f) == f

\* _redirect: the Location is read, the connection closed, and _request
\* entered again (the new frame has no response yet)
Redirect(resp) ==
    LET new_url == getheader(resp, "Location")
    IN  IF LocationMissing(new_url)
        THEN /\ Raise("MissingRedirectTarget")
             /\ response' = resp
             /\ frame' = [method |-> MissingTargetFrame(frame).method,
                          url |-> MissingTargetFrame(frame).url,
                          headers |-> MissingTargetFrame(frame).headers,
                          json_data |-> MissingTargetFrame(frame).json_data,
                          data |-> MissingTargetFrame(frame).data,
                          max_redirects |-> MissingTargetFrame(frame).max_redirects,
                          allow_redirects |-> MissingTargetFrame(frame).allow_redirects]
             /\ UNCHANGED <<connection, closed, headers_obj, followed, result>>
        ELSE /\ connection' = "closed"
             /\ closed' = ClosedAfterRedirect(closed)
             /\ response' = NoResponse
             /\ frame' = [method |-> RedirectFrame(frame, new_url.v).method,
                          url |-> RedirectFrame(frame, new_url.v).url,
                          headers |-> RedirectFrame(frame, new_url.v).headers,
                          json_data |-> RedirectFrame(frame, new_url.v).json_data,
                          data |-> RedirectFrame(frame, new_url.v).data,
                          max_redirects |-> RedirectFrame(frame, new_url.v).max_redirects,
                          allow_redirects |-> RedirectFrame(frame, new_url.v).allow_redirects]
             /\ headers_obj' = "hop"
             /\ followed' = followed + 1
             /\ pc' = "request"
             /\ UNCHANGED <<result, error>>

\* the Response built with the headers received
ResponseHeadersReceived(headers, resp) == resp.headers

\* the headers the Response is built with: the frame's `headers`
ResponseHeaders(headers, resp) == headers

\* the terminal hop: decode, close, build the Response
Terminal(resp) ==
    LET decoded == DecodePayload(resp)
    IN  IF decoded.ok
        THEN /\ connection' = "closed"
             /\ closed' = closed + 1
             /\ result' = [status_code |-> resp.status,
                           headers |-> ResponseHeaders(frame.headers.v, resp),
                           payload |-> decoded.value]
             /\ pc' = "done"
             /\ UNCHANGED <<frame, headers_obj, followed, error>>
        ELSE /\ Raise(decoded.value)
             /\ UNCHANGED <<frame, connection, closed, headers_obj, followed, result>>

Respond ==
    /\ pc = "response"
    /\ \E resp \in Responses :
        /\ decision' = [status |-> resp.status,
                        followed |-> ShouldRedirect(resp.status, frame.allow_redirects,
                                                    cls_allow_redirects)]
        /\ IF ShouldRedirect(resp.status, frame.allow_redirects, cls_allow_redirects)
           THEN Redirect(resp)
           ELSE response' = resp /\ Terminal(resp)
    /\ UNCHANGED <<default_headers, cls_allow_redirects, last_init, call, opened,
                   caller_headers, first_sent, sent, exchanges>>

\* the caller has the Response or the exception; the next call starts afresh
Return ==
    /\ pc = "done"
    /\ pc' = "idle"
    /\ call' = NoCall
    /\ frame' = NoFrame
    /\ connection' = "none"
    /\ opened' = 0
    /\ closed' = 0
    /\ caller_headers' = NoHeaders
    /\ headers_obj' = "none"
    /\ first_sent' = NoSent
    /\ sent' = NoSent
    /\ response' = NoResponse
    /\ exchanges' = 0
    /\ followed' = 0
    /\ decision' = NoDecision
    /\ result' = NoResult
    /\ error' = "None"
    /\ UNCHANGED <<default_headers, cls_allow_redirects, last_init>>

Next ==
    \/ Configure
    \/ request
    \/ get
    \/ post
    \/ put
    \/ patch
    \/ delete
    \/ head
    \/ options
    \/ Dispatch
    \/ Respond
    \/ Return

Spec == Init /\ [][Next]_vars

\* the call runs on, and every transport exchange returns
FairSpec == Spec /\ WF_vars(Dispatch) /\ WF_vars(Respond)

TypeOK ==
    /\ pc \in {"idle", "request", "response", "done"}
    /\ cls_allow_redirects \in Tri
    /\ connection \in {"none", "created", "open", "closed"}
    /\ headers_obj \in {"none", "caller", "hop", "fresh", "default"}
    /\ opened \in 0..(DefaultMaxRedirects + 1)
    /\ closed \in 0..(DefaultMaxRedirects + 1)
    /\ exchanges \in 0..(DefaultMaxRedirects + 1)
    /\ followed \in 0..(DefaultMaxRedirects + 1)
    /\ decision.followed \in BOOLEAN

----------------------------------------------------------------------------
(* Properties.                                                             *)

\* the call reached _request (it was not rejected at the entry point)
InRequest == pc # "idle" /\ error # "TypeError: unexpected keyword argument"

\* the caller's headers as a dict
CallerHeaders == IF call.headers.t = "NoneType" THEN EmptyDict ELSE call.headers.v

\* the configuration would have redirects followed for this call
CallFollows ==
    \/ call.allow_redirects = "True"
    \/ call.allow_redirects = "None" /\ cls_allow_redirects = "True"

\* the Content-Encoding of the frame's response is one the decoder knows
EncodingKnown ==
    /\ "Content-Encoding" \in DOMAIN response.headers
    /\ response.headers["Content-Encoding"] \in {"gzip", "deflate"}

\* ... and the body is in the framing the Content-Encoding names
BodyDecodes ==
    /\ EncodingKnown
    /\ response.headers["Content-Encoding"] = "gzip" => response.body.fmt = "gzip"
    /\ response.headers["Content-Encoding"] = "deflate" => response.body.fmt = "zlib"

\* C1: with the per-call flag true and the default unset, every redirect
\* response of a chain shorter than the budget is followed, and the Response
\* returned carries the status and payload of the first non-redirect
\* response.
C1_FollowsWholeChain ==
    (InRequest /\ call.allow_redirects = "True" /\ cls_allow_redirects = "None"
        /\ followed + 1 < call.max_redirects)
    => /\ decision.status \in redirect_status_codes => decision.followed
       /\ (pc = "done" /\ error = "None")
          => /\ result.status_code \notin redirect_status_codes
             /\ result.status_code = response.status
             /\ result.payload = response.body.text

\* C2: a call started with budget B >= 0 runs its k-th hop with budget
\* B - k, dispatches nothing at a negative budget, makes at most B + 1
\* exchanges, and fails with TooManyRedirects after B + 1 followed redirects.
C2_BudgetAccounting ==
    (InRequest /\ call.max_redirects >= 0)
    => /\ frame.max_redirects = call.max_redirects - followed
       /\ exchanges <= call.max_redirects + 1
       /\ exchanges <= followed + 1
       /\ pc = "response" => (frame.max_redirects >= 0 /\ exchanges = followed + 1)
       /\ frame.max_redirects < 0
          => (connection # "open" /\ exchanges = followed /\ pc \in {"request", "done"})
       /\ (pc = "done" /\ followed = call.max_redirects + 1)
          => (error = "TooManyRedirects" /\ exchanges = call.max_redirects + 1)

C2_Witness ==
    /\ pc = "done"
    /\ call.max_redirects >= 1
    /\ followed = call.max_redirects + 1
    /\ error = "TooManyRedirects"

\* C3: a response is followed exactly when its status is a redirect status
\* and the per-call flag is true, or unset with the default true.
C3_DecisionPrecedence ==
    (InRequest /\ decision.status # 0)
    => (decision.followed <=> (decision.status \in redirect_status_codes /\ CallFollows))

\* C4 as stated: with both flags unset a 302 costs one exchange and comes
\* back as a Response with status 302.
C4_Unfollowed302Returned ==
    (pc = "done" /\ call.allow_redirects = "None" /\ cls_allow_redirects = "None"
        /\ decision.status = 302)
    => (exchanges = 1 /\ error = "None" /\ result.status_code = 302)

\* C4 amended: with both flags unset a 302 costs one exchange and is not
\* followed; it comes back as a Response with status 302 when its
\* Content-Encoding is gzip or deflate and its body decompresses, and the
\* call fails without a Response otherwise.
C4_Unfollowed302 ==
    (pc = "done" /\ call.allow_redirects = "None" /\ cls_allow_redirects = "None"
        /\ decision.status = 302)
    => /\ exchanges = 1
       /\ followed = 0
       /\ IF BodyDecodes
          THEN error = "None" /\ result.status_code = 302
          ELSE error \in {"UnsupportedEncoding", "DecompressError"} /\ result = NoResult

C4_Witness ==
    /\ pc = "done"
    /\ call.allow_redirects = "None"
    /\ cls_allow_redirects = "None"
    /\ decision.status = 302
    /\ "Location" \in DOMAIN response.headers
    /\ result.status_code = 302

\* C5: post / put / patch with json_data dispatch Content-Type:
\* application/json and the encoded serialization of json_data.
C5_JsonBodyDispatched ==
    (call.via \in BodyVerbs /\ call.json_data # PyNone /\ exchanges >= 1)
    => /\ "Content-Type" \in DOMAIN sent.headers
       /\ sent.headers["Content-Type"] = "application/json"
       /\ sent.body = encode(dumps(call.json_data))

\* C6: post / put / patch with data only dispatch that data (encoded when it
\* is text), not serialized as JSON and with no Content-Type forced.
C6_RawBodyDispatched ==
    (call.via \in BodyVerbs /\ call.json_data = PyNone /\ call.data # PyNone)
    => /\ error # "TypeError: not JSON serializable"
       /\ exchanges >= 1
          => /\ sent.body = PyBytes(call.data.v)
             /\ sent.headers = MergeHeaders(default_headers, call.headers)

\* C7: the redirect-allow override given to a verb method is the per-call
\* flag of the call's pipeline.
C7_VerbOverrideUsed ==
    (call.via \in Verbs /\ pc # "idle")
    => /\ error # "TypeError: unexpected keyword argument"
       /\ followed = 0 => frame.allow_redirects = call.allow_redirects

\* C8: a terminal response whose Content-Encoding is neither gzip nor
\* deflate fails the call with UnsupportedEncoding and no Response; a
\* Response is returned only for gzip or deflate.
C8_UnsupportedEncodingFails ==
    /\ (pc = "done" /\ decision.status # 0 /\ ~decision.followed /\ ~EncodingKnown)
       => (error = "UnsupportedEncoding" /\ result = NoResult)
    /\ (pc = "done" /\ error = "None")
       => (decision.status # 0 /\ ~decision.followed /\ EncodingKnown)
    /\ result # NoResult => (pc = "done" /\ error = "None")

C8_Witness ==
    /\ pc = "done"
    /\ error = "UnsupportedEncoding"
    /\ decision.status = 200
    /\ "Content-Encoding" \notin DOMAIN response.headers
    /\ result = NoResult

\* C9: init sets the default flag to the value it is given (true or false),
\* and leaves it as it was when the argument is omitted.
C9_InitSetsDefault ==
    last_init.called
    => cls_allow_redirects =
         (IF last_init.allow_redirects = "None" THEN last_init.before
          ELSE last_init.allow_redirects)

SchemeUnsupported ==
    /\ InRequest
    /\ urlparse(frame.url).scheme \notin {"", "http", "https"}

\* C11 as stated: in a call started with a budget that is not negative, a
\* hop whose URL has an unsupported scheme fails the call with
\* UnsupportedScheme, with no connection and no exchange for that hop.
C11_UnsupportedSchemeFails ==
    (SchemeUnsupported /\ call.max_redirects >= 0 /\ pc = "done")
    => (error = "UnsupportedScheme" /\ opened = followed /\ exchanges = followed)

\* C11 amended: a hop whose URL has an unsupported scheme fails the call
\* with no connection and no exchange for that hop, and nothing is tried
\* afterwards; the error is UnsupportedScheme when the hop's budget is not
\* negative and TooManyRedirects when it is (the budget is checked first).
C11_UnsupportedSchemeFailsInBudget ==
    SchemeUnsupported
    => /\ pc \in {"request", "done"}
       /\ opened = followed
       /\ exchanges = followed
       /\ connection # "open"
       /\ pc = "done"
          => error = (IF frame.max_redirects < 0 THEN "TooManyRedirects"
                      ELSE "UnsupportedScheme")

C11_Witness ==
    /\ pc = "done"
    /\ error = "UnsupportedScheme"
    /\ followed >= 1
    /\ frame.url = UrlFtp

\* C12: when the call has returned or failed, every connection it opened
\* has been closed, on the error paths too.
C12_ConnectionsReleased ==
    pc = "done" => (closed = opened /\ connection # "open")

\* C13: a redirect that is to be followed and has no Location fails the
\* call with MissingRedirectTarget: nothing further is opened or exchanged,
\* the budget is not decremented and no Response is returned.
C13_MissingTarget ==
    /\ error = "MissingRedirectTarget"
       => /\ pc = "done"
          /\ decision.followed
          /\ response.status \in redirect_status_codes
          /\ "Location" \notin DOMAIN response.headers
          /\ result = NoResult
          /\ exchanges = followed + 1
          /\ opened = followed + 1
          /\ frame.max_redirects = call.max_redirects - followed
    /\ (decision.followed /\ response.status # 0) => error = "MissingRedirectTarget"
    /\ (InRequest /\ followed > 0) => frame.url \in LocationUrls

C13_Witness ==
    /\ error = "MissingRedirectTarget"
    /\ followed >= 1
    /\ "Location" \notin DOMAIN response.headers

\* C14: every hop of a followed chain dispatches the method, the headers
\* (with the forced Content-Type of a JSON body) and the body of the first
\* hop; the path is that of the hop's own URL.
C14_SameRequestEveryHop ==
    exchanges >= 1
    => /\ sent.method = first_sent.method
       /\ sent.headers = first_sent.headers
       /\ sent.body = first_sent.body
       /\ frame.json_data # PyNone => sent.headers["Content-Type"] = "application/json"
       /\ exchanges = followed + 1 => sent.path = ConnectPath(frame.url)

C14_Witness ==
    /\ pc = "response"
    /\ exchanges = 3
    /\ decision.status = 308
    /\ frame.json_data # PyNone
    /\ sent.body = first_sent.body
    /\ sent.path # first_sent.path

\* C15: every call ends, after at most budget + 1 followed redirects, and
\* ends either with a Response and no error or with an error and no
\* Response; there is no Response before the end.
C15_Terminates ==
    /\ (pc \in {"request", "response"}) ~> (pc = "done")
    /\ [](InRequest => (followed <= call.max_redirects + 1 \/ followed = 0))
    /\ [](pc = "done" => \/ result # NoResult /\ error = "None"
                         \/ result = NoResult /\ error # "None")
    /\ [](pc # "done" => (result = NoResult /\ error = "None"))

C15_Witness ==
    /\ pc = "done"
    /\ call.via = "get"
    /\ followed = DefaultMaxRedirects + 1
    /\ error = "TooManyRedirects"
    /\ result = NoResult

\* C16: no step of a request call changes the default headers or the
\* default redirect flag; only the configuration call does.
C16_ConfigurationUnchanged ==
    [][(pc # "idle" \/ pc' # "idle")
        => (default_headers' = default_headers
            /\ cls_allow_redirects' = cls_allow_redirects)]_vars

C16_Witness ==
    /\ pc = "done"
    /\ followed >= 1
    /\ frame.json_data # PyNone
    /\ sent.headers["Content-Type"] = "application/json"
    /\ "Content-Type" \notin DOMAIN default_headers
    /\ cls_allow_redirects = "True"

\* C17: the headers of the Response returned are the request headers
\* dispatched on the terminal hop, not the headers received.
C17_ResponseHeadersAreRequestHeaders ==
    (pc = "done" /\ error = "None")
    => /\ result.headers = sent.headers
       /\ result.headers # response.headers
       /\ "Content-Encoding" \notin DOMAIN result.headers
       /\ frame.json_data # PyNone => result.headers["Content-Type"] = "application/json"

C17_Witness ==
    /\ pc = "done"
    /\ error = "None"
    /\ followed >= 1
    /\ "X" \in DOMAIN result.headers
    /\ result.headers["X"] = "2"
    /\ "Content-Encoding" \in DOMAIN response.headers

\* C18: each hop connects its own connection, which carries one exchange;
\* the previous hop's connection is closed before the next hop starts, so
\* at most one connection of the call is open.
C18_OneConnectionPerHop ==
    InRequest
    => /\ opened = exchanges
       /\ opened - closed \in {0, 1}
       /\ (opened - closed = 1) <=> (connection = "open")
       /\ pc = "request" => (opened = followed /\ closed = followed)
       /\ pc = "response" => (opened = followed + 1 /\ closed = followed)

C18_Witness ==
    /\ pc = "response"
    /\ followed = 2
    /\ opened = 3
    /\ closed = 2

\* C19: the dict the caller passed as headers keeps its content through
\* the call, and the effective headers (those of the Response too) are a
\* dict of their own, neither the caller's nor the class's default dict.
C19_CallerHeadersUntouched ==
    /\ caller_headers = call.headers
    /\ (pc = "response" \/ (pc = "done" /\ error = "None")) => headers_obj = "fresh"

C19_Witness ==
    /\ pc = "done"
    /\ error = "None"
    /\ call.headers.t = "dict"
    /\ frame.json_data # PyNone
    /\ followed >= 1
    /\ result.headers # caller_headers.v
    /\ caller_headers = call.headers

====
